---- MODULE Spec2Model ----
(***************************************************************************)
(* Model of fancy-regex's analysis pass (src/analyze.rs): the recursive    *)
(* visitor Analyzer::visit that annotates an Expr tree, its entry point    *)
(* analyze, and the literal detector is_literal / push_literal of          *)
(* AnalyzedExpr.                                                           *)
(***************************************************************************)
EXTENDS Integers, Sequences, FiniteSets

(***************************************************************************)
(* Bounds of the model.                                                    *)
(***************************************************************************)
\* Largest number of Expr nodes of an exhaustively enumerated input tree.
MaxNodes == 3
\* Largest lo / hi of an enumerated Repeat node.
MaxRepeat == 1
\* Largest size of an enumerated Delegate node.
MaxDelegate == 1
\* Largest group index of an enumerated Backref node and of the backrefs set.
MaxBackref == 1

\* std::usize::MAX, the hi of an unbounded repetition (`*`, `+`); scaled to
\* the integers of the model checker.  Only compared for equality with lo.
UsizeMax == 2147483647

\* The texts of the enumerated Literal nodes (one character per node).
Chars == {"a", "b"}

(***************************************************************************)
(* The AST consumed by the pass: the variants of Expr matched in visit,    *)
(* with the fields visit, is_literal and push_literal read.  Fields the    *)
(* pass ignores (`..`, `_`: Any.newline, Repeat.greedy, the LookAround     *)
(* kind, Delegate.inner) are left out.                                     *)
(***************************************************************************)
Empty == [kind |-> "Empty"]
StartText == [kind |-> "StartText"]
EndText == [kind |-> "EndText"]
StartLine == [kind |-> "StartLine"]
EndLine == [kind |-> "EndLine"]
Any == [kind |-> "Any"]
Literal(val, casei) == [kind |-> "Literal", val |-> val, casei |-> casei]
Concat(v) == [kind |-> "Concat", v |-> v]
Alt(v) == [kind |-> "Alt", v |-> v]
Group(child) == [kind |-> "Group", child |-> child]
LookAround(child) == [kind |-> "LookAround", child |-> child]
Repeat(child, lo, hi) == [kind |-> "Repeat", child |-> child, lo |-> lo, hi |-> hi]
Delegate(size) == [kind |-> "Delegate", size |-> size]
Backref(group) == [kind |-> "Backref", group |-> group]
AtomicGroup(child) == [kind |-> "AtomicGroup", child |-> child]

\* The children of an Expr node, in order.
ExprChildren(expr) ==
  IF expr.kind \in {"Concat", "Alt"} THEN expr.v
  ELSE IF expr.kind \in {"Group", "LookAround", "Repeat", "AtomicGroup"} THEN <<expr.child>>
  ELSE <<>>

Min(a, b) == IF a <= b THEN a ELSE b

(***************************************************************************)
(* struct AnalyzedExpr and the result of visit: Ok(AnalyzedExpr), with the *)
(* analyzer's group_ix after the call, or Err(Error::InvalidBackref).      *)
(***************************************************************************)
AnalyzedExpr(expr, children, start_group, end_group, min_size, const_size, hard, looks_left) ==
  [expr |-> expr, children |-> children, start_group |-> start_group,
   end_group |-> end_group, min_size |-> min_size, const_size |-> const_size,
   hard |-> hard, looks_left |-> looks_left]

Ok(node, group_ix) == [ok |-> TRUE, node |-> node, group_ix |-> group_ix]
Err == [ok |-> FALSE, error |-> "InvalidBackref"]

\* fn literal_const_size(_: &str, _: bool) -> bool
literal_const_size(val, casei) == TRUE

\* The locals of visit while it folds the children of a Concat or an Alt.
Acc(children, min_size, const_size, hard, looks_left) ==
  [children |-> children, min_size |-> min_size, const_size |-> const_size,
   hard |-> hard, looks_left |-> looks_left]

\* ConcatStep with the test of the width consumed so far left out.
ConcatStepNoSizeTest(acc, analyzed_child) ==
  Acc(Append(acc.children, analyzed_child),
      acc.min_size + analyzed_child.min_size,
      acc.const_size /\ analyzed_child.const_size,
      acc.hard \/ analyzed_child.hard,
      acc.looks_left \/ analyzed_child.looks_left)

\* Body of the loop over the children of a Concat.
ConcatStep(acc, analyzed_child) ==
  Acc(Append(acc.children, analyzed_child),
      acc.min_size + analyzed_child.min_size,
      acc.const_size /\ analyzed_child.const_size,
      acc.hard \/ analyzed_child.hard,
      acc.looks_left \/ (analyzed_child.looks_left /\ acc.min_size = 0))

\* The first branch of an Alt (looks_left keeps its initial value, false).
AltFirst(analyzed_child) ==
  Acc(<<analyzed_child>>, analyzed_child.min_size, analyzed_child.const_size,
      analyzed_child.hard, FALSE)

\* AltStep with the comparison of the branch sizes left out.
AltStepNoSizeTest(acc, analyzed_child) ==
  Acc(Append(acc.children, analyzed_child),
      Min(acc.min_size, analyzed_child.min_size),
      acc.const_size /\ analyzed_child.const_size,
      acc.hard \/ analyzed_child.hard,
      acc.looks_left \/ analyzed_child.looks_left)

\* Body of the loop over the branches v[1..] of an Alt.
AltStep(acc, analyzed_child) ==
  Acc(Append(acc.children, analyzed_child),
      Min(acc.min_size, analyzed_child.min_size),
      acc.const_size /\ (analyzed_child.const_size /\ acc.min_size = analyzed_child.min_size),
      acc.hard \/ analyzed_child.hard,
      acc.looks_left \/ analyzed_child.looks_left)

\* NextGroupIx without the increment.
NextGroupIxSame(group_ix) == group_ix

\* Group: the index the group takes and the counter after it.
NextGroupIx(group_ix) == group_ix + 1

\* GroupHard without the lookup in backrefs.
GroupHardChildOnly(child_hard, backrefs, group) == child_hard

\* Group: hard = analyzed_child.hard | self.backrefs.contains(group)
GroupHard(child_hard, backrefs, group) == child_hard \/ (group \in backrefs)

\* RepeatConstSize without the comparison of the bounds.
RepeatConstSizeChildOnly(child_const_size, lo, hi) == child_const_size

\* Repeat: min_size and const_size.  min_size is a usize; the sizes of the
\* trees enumerated here stay far below usize::MAX, where the product and the
\* sum of ConcatStep do not wrap.
RepeatMinSize(child_min_size, lo) == child_min_size * lo
RepeatConstSize(child_const_size, lo, hi) == child_const_size /\ lo = hi

\* BackrefInvalid with the comparison off by one.
BackrefInvalidStrict(group, group_ix) == group > group_ix

\* Backref: the test that rejects the reference.
BackrefInvalid(group, group_ix) == group >= group_ix

RECURSIVE visit(_, _, _)
RECURSIVE VisitLoop(_, _, _, _, _, _)

\* The two `for child in ...` loops of visit: children v[i..] are visited in
\* order, the counter threaded through; `?` returns the first error.
VisitLoop(kind, v, i, backrefs, group_ix, acc) ==
  IF i > Len(v) THEN [ok |-> TRUE, acc |-> acc, group_ix |-> group_ix]
  ELSE LET r == visit(v[i], backrefs, group_ix) IN
       IF ~r.ok THEN Err
       ELSE VisitLoop(kind, v, i + 1, backrefs, r.group_ix,
                      IF kind = "Concat" THEN ConcatStep(acc, r.node)
                      ELSE AltStep(acc, r.node))

\* Analyzer::visit, with self.group_ix on entry; self.backrefs is fixed.
visit(expr, backrefs, group_ix) ==
  LET start_group == group_ix IN
  CASE expr.kind \in {"Empty", "EndText", "EndLine"} ->
         Ok(AnalyzedExpr(expr, <<>>, start_group, group_ix, 0, TRUE, FALSE, FALSE), group_ix)
    [] expr.kind = "Any" ->
         Ok(AnalyzedExpr(expr, <<>>, start_group, group_ix, 1, TRUE, FALSE, FALSE), group_ix)
    [] expr.kind = "Literal" ->
         Ok(AnalyzedExpr(expr, <<>>, start_group, group_ix, 1,
                         literal_const_size(expr.val, expr.casei), FALSE, FALSE), group_ix)
    [] expr.kind \in {"StartText", "StartLine"} ->
         Ok(AnalyzedExpr(expr, <<>>, start_group, group_ix, 0, TRUE, FALSE, TRUE), group_ix)
    [] expr.kind = "Concat" ->
         LET r == VisitLoop("Concat", expr.v, 1, backrefs, group_ix,
                            Acc(<<>>, 0, TRUE, FALSE, FALSE)) IN
         IF ~r.ok THEN Err
         ELSE Ok(AnalyzedExpr(expr, r.acc.children, start_group, r.group_ix, r.acc.min_size,
                              r.acc.const_size, r.acc.hard, r.acc.looks_left), r.group_ix)
    [] expr.kind = "Alt" ->
         LET first == visit(expr.v[1], backrefs, group_ix) IN
         IF ~first.ok THEN Err
         ELSE LET r == VisitLoop("Alt", expr.v, 2, backrefs, first.group_ix,
                                 AltFirst(first.node)) IN
              IF ~r.ok THEN Err
              ELSE Ok(AnalyzedExpr(expr, r.acc.children, start_group, r.group_ix,
                                   r.acc.min_size, r.acc.const_size, r.acc.hard,
                                   r.acc.looks_left), r.group_ix)
    [] expr.kind = "Group" ->
         LET group == group_ix
             r == visit(expr.child, backrefs, NextGroupIx(group_ix)) IN
         IF ~r.ok THEN Err
         ELSE Ok(AnalyzedExpr(expr, <<r.node>>, start_group, r.group_ix, r.node.min_size,
                              r.node.const_size, GroupHard(r.node.hard, backrefs, group),
                              r.node.looks_left), r.group_ix)
    [] expr.kind = "LookAround" ->
         LET r == visit(expr.child, backrefs, group_ix) IN
         IF ~r.ok THEN Err
         ELSE Ok(AnalyzedExpr(expr, <<r.node>>, start_group, r.group_ix, 0, TRUE, TRUE,
                              r.node.looks_left), r.group_ix)
    [] expr.kind = "Repeat" ->
         LET r == visit(expr.child, backrefs, group_ix) IN
         IF ~r.ok THEN Err
         ELSE Ok(AnalyzedExpr(expr, <<r.node>>, start_group, r.group_ix,
                              RepeatMinSize(r.node.min_size, expr.lo),
                              RepeatConstSize(r.node.const_size, expr.lo, expr.hi),
                              r.node.hard, r.node.looks_left), r.group_ix)
    [] expr.kind = "Delegate" ->
         Ok(AnalyzedExpr(expr, <<>>, start_group, group_ix, expr.size, TRUE, FALSE,
                         expr.size = 0), group_ix)
    [] expr.kind = "Backref" ->
         IF BackrefInvalid(expr.group, group_ix) THEN Err
         ELSE Ok(AnalyzedExpr(expr, <<>>, start_group, group_ix, 0, FALSE, TRUE, FALSE),
                 group_ix)
    [] expr.kind = "AtomicGroup" ->
         LET r == visit(expr.child, backrefs, group_ix) IN
         IF ~r.ok THEN Err
         ELSE Ok(AnalyzedExpr(expr, <<r.node>>, start_group, r.group_ix, r.node.min_size,
                              r.node.const_size, TRUE, r.node.looks_left), r.group_ix)

\* pub fn analyze: a fresh Analyzer with group_ix 0 visits the root.
analyze(expr, backrefs) ==
  LET r == visit(expr, backrefs, 0) IN
  IF r.ok THEN [ok |-> TRUE, tree |-> r.node] ELSE Err

(***************************************************************************)
(* The literal detector: AnalyzedExpr::is_literal and push_literal.        *)
(***************************************************************************)
\* is_literal, the arm Expr::Literal { casei, .. } => !casei
LiteralIsLiteral(casei) == ~casei

RECURSIVE is_literal(_)
is_literal(self) ==
  CASE self.expr.kind = "Literal" -> LiteralIsLiteral(self.expr.casei)
    [] self.expr.kind = "Concat" ->
         \A i \in 1..Len(self.children) : is_literal(self.children[i])
    [] OTHER -> FALSE

\* PushStr putting the text in front of the buffer.
PushStrFront(buf, val) == val \o buf

\* push_literal, the arm Expr::Literal { ref val, .. } => buf.push_str(val)
PushStr(buf, val) == buf \o val

\* The outcome of push_literal: the buffer it leaves, and whether it returned
\* or unwound with panic!("push_literal called on non-literal").
Returned(buf) == [buf |-> buf, panicked |-> FALSE]
Panicked(buf) == [buf |-> buf, panicked |-> TRUE]

RECURSIVE push_literal(_, _)
RECURSIVE PushLoop(_, _, _)

\* for child in &self.children { child.push_literal(buf); }
PushLoop(children, i, buf) ==
  IF i > Len(children) THEN Returned(buf)
  ELSE LET r == push_literal(children[i], buf) IN
       IF r.panicked THEN r ELSE PushLoop(children, i + 1, r.buf)

push_literal(self, buf) ==
  CASE self.expr.kind = "Literal" -> Returned(PushStr(buf, self.expr.val))
    [] self.expr.kind = "Concat" -> PushLoop(self.children, 1, buf)
    [] OTHER -> Panicked(buf)

(***************************************************************************)
(* The inputs: every Expr tree of at most MaxNodes nodes over a small      *)
(* alphabet, and the trees of the patterns the documentation and the tests *)
(* name.  An Alt has at least one branch (visit indexes v[0]).             *)
(***************************************************************************)
Leaves ==
  {Empty, StartText, EndText, StartLine, EndLine, Any}
    \cup {Literal(c, casei) : c \in Chars, casei \in BOOLEAN}
    \cup {Delegate(size) : size \in 0..MaxDelegate}
    \cup {Backref(g) : g \in 0..MaxBackref}

Wrap(t) ==
  {Group(t), LookAround(t), AtomicGroup(t)}
    \cup {Repeat(t, lo, hi) : lo \in 0..MaxRepeat, hi \in 0..MaxRepeat}

RECURSIVE Trees(_)
RECURSIVE Forests(_)
\* The trees of exactly n nodes.
Trees(n) ==
  IF n = 1 THEN Leaves \cup {Concat(<<>>)}
  ELSE LET F == Forests(n - 1) IN
       UNION {Wrap(t) : t \in Trees(n - 1)}
         \cup {Concat(f) : f \in F}
         \cup {Alt(f) : f \in F}
\* The nonempty sequences of trees of n nodes in all (the empty one for n = 0).
Forests(n) ==
  IF n = 0 THEN {<<>>}
  ELSE UNION {LET T == Trees(k)
                  F == Forests(n - k)
              IN  {<<t>> \o f : t \in T, f \in F} : k \in 1..n}

\* expr is a tree of at most MaxNodes nodes.  (Trees(MaxNodes) is enumerated
\* from its parts, the set itself is never built.)
IsSmallTree(e) ==
  \/ e \in Trees(1)
  \/ \E n \in 2..MaxNodes :
       \/ \E t \in Trees(n - 1) : e \in Wrap(t)
       \/ \E k \in 1..(n - 1) :
            \E t \in Trees(k), f \in Forests(n - 1 - k) :
              e \in {Concat(<<t>> \o f), Alt(<<t>> \o f)}

Lit(c) == Literal(c, FALSE)
\* `*` is Repeat { lo: 0, hi: usize::MAX }
Star(t) == Repeat(t, 0, UsizeMax)

Patterns ==
  { Concat(<<Any, Backref(0)>>),                       \* .\0
    Group(Concat(<<Any, Backref(1)>>)),                \* (.\1)
    Concat(<<Backref(1), Group(Any)>>),                \* \1(.)
    Concat(<<Group(Any), Backref(0)>>),                \* (.)\0
    Concat(<<Lit("a"), Lit("b"), Lit("c")>>),          \* abc
    Concat(<<Lit("a"), Lit("b"), Star(Lit("c"))>>),    \* abc*
    Concat(<<Lit("a"), Literal("b", TRUE), Lit("c")>>),
    Concat(<<Lit("a"), Concat(<<Lit("b"), Any>>)>>),
    Alt(<<Lit("a"), Lit("b")>>),                       \* a|b
    Alt(<<Lit("a"), Concat(<<Lit("b"), Lit("b")>>)>>), \* a|bb
    Alt(<<Concat(<<Lit("b"), Lit("b")>>), Lit("a"), Concat(<<Lit("c"), Lit("c")>>)>>),
    Alt(<<Lit("a"), Star(Lit("b")), Lit("c")>>),
    Concat(<<Lit("a"), Lit("b")>>),                    \* ab
    Concat(<<Lit("a"), Star(Lit("b"))>>),              \* ab*
    Repeat(Lit("a"), 3, 3),                            \* a{3}
    Repeat(Lit("a"), 3, 5),                            \* a{3,5}
    Repeat(Concat(<<Lit("a"), Lit("b")>>), 2, 2),
    LookAround(Concat(<<Lit("a"), Lit("b")>>)),        \* (?=ab)
    Concat(<<Empty, Lit("a"), StartText>>),
    Concat(<<Empty, StartText, Lit("a")>>),
    Concat(<<Group(Concat(<<Group(Lit("a")), Group(Lit("b"))>>)), Group(Lit("c")), Backref(2)>>),
    Alt(<<Group(Group(Any)), Group(Backref(1)), Backref(2)>>),
    Concat(<<Group(Any), Group(Backref(1))>>) }

RECURSIVE FoldSum(_, _)
FoldSum(f, n) == IF n = 0 THEN 0 ELSE f[n] + FoldSum(f, n - 1)

\* The number of Group nodes of a tree.
RECURSIVE CountGroups(_)
CountGroups(expr) ==
  LET v == ExprChildren(expr) IN
  (IF expr.kind = "Group" THEN 1 ELSE 0)
    + FoldSum([i \in 1..Len(v) |-> CountGroups(v[i])], Len(v))

\* The group indices the Backref nodes of a tree name.
RECURSIVE BackrefsOf(_)
BackrefsOf(expr) ==
  LET v == ExprChildren(expr) IN
  (IF expr.kind = "Backref" THEN {expr.group} ELSE {})
    \cup UNION {BackrefsOf(v[i]) : i \in 1..Len(v)}

\* The backreferenced-groups sets handed to analyze with a tree: indices of
\* groups of the tree, or indices its backreferences name.
BackrefSets(expr) == SUBSET ((0..(CountGroups(expr) - 1)) \cup BackrefsOf(expr))

(***************************************************************************)
(* The state machine: a parsed pattern is analyzed once; the literal       *)
(* detector then reads the returned tree.                                  *)
(***************************************************************************)
\* Longest buffer push_literal is still called with.
MaxBuf == 1

VARIABLES
  expr,      \* the AST handed to analyze
  backrefs,  \* the backreferenced-groups set handed to analyze
  pc,        \* "parsed", "analyzed", "failed", "tested", "pushed", "panicked"
  result,    \* what analyze returned
  lit,       \* what the last is_literal call on the root returned
  buf        \* the caller's String buffer

vars == <<expr, backrefs, pc, result, lit, buf>>

Pending == [ok |-> FALSE, error |-> "pending"]

Init ==
  /\ (expr \in Patterns \/ IsSmallTree(expr))
  /\ backrefs \in BackrefSets(expr)
  /\ pc = "parsed"
  /\ result = Pending
  /\ lit = FALSE
  /\ buf = ""

\* let analyzed = analyze(&e, &backrefs)
Analyze ==
  /\ pc = "parsed"
  /\ result' = analyze(expr, backrefs)
  /\ pc' = IF result'.ok THEN "analyzed" ELSE "failed"
  /\ UNCHANGED <<expr, backrefs, lit, buf>>

\* analyzed.is_literal()
IsLiteral ==
  /\ pc \in {"analyzed", "tested", "pushed"}
  /\ lit' = is_literal(result.tree)
  /\ pc' = "tested"
  /\ UNCHANGED <<expr, backrefs, result, buf>>

\* analyzed.push_literal(&mut buf)
PushLiteral ==
  /\ pc \in {"analyzed", "tested", "pushed"}
  /\ Len(buf) <= MaxBuf
  /\ LET r == push_literal(result.tree, buf) IN
       /\ buf' = r.buf
       /\ pc' = IF r.panicked THEN "panicked" ELSE "pushed"
  /\ UNCHANGED <<expr, backrefs, result, lit>>

Next == Analyze \/ IsLiteral \/ PushLiteral

Spec == Init /\ [][Next]_vars

TypeOK ==
  /\ pc \in {"parsed", "analyzed", "failed", "tested", "pushed", "panicked"}
  /\ lit \in BOOLEAN
  /\ (pc = "parsed") = (result = Pending)
  /\ (pc = "failed") => result = Err

(***************************************************************************)
(* Reference notions the properties are stated with.                       *)
(***************************************************************************)
RECURSIVE ConcatAll(_, _)
ConcatAll(f, n) == IF n = 0 THEN <<>> ELSE ConcatAll(f, n - 1) \o f[n]

\* The nodes of an AST in pre-order, left to right.
RECURSIVE PreOrder(_)
PreOrder(e) ==
  LET v == ExprChildren(e) IN
  <<e>> \o ConcatAll([i \in 1..Len(v) |-> PreOrder(v[i])], Len(v))

\* The nodes of an annotated tree in pre-order, and as a set.
RECURSIVE PreOrderA(_)
PreOrderA(node) ==
  <<node>> \o ConcatAll([i \in 1..Len(node.children) |-> PreOrderA(node.children[i])],
                        Len(node.children))

Nodes(node) == {PreOrderA(node)[i] : i \in 1..Len(PreOrderA(node))}

\* The number of Group nodes among the first i - 1 nodes of a pre-order.
GroupsBefore(s, i) == Cardinality({j \in 1..(i - 1) : s[j].kind = "Group"})

\* Some Backref(g) has g >= the number of groups entered before it.
HasUnopenedBackref(e) ==
  LET s == PreOrder(e) IN
  \E i \in 1..Len(s) : s[i].kind = "Backref" /\ s[i].group >= GroupsBefore(s, i)

\* Some Backref(g) lies in the body of the g-th Group opened in pre-order.
HasSelfReference(e) ==
  LET s == PreOrder(e) IN
  \E j \in 1..Len(s) :
    /\ s[j].kind = "Group"
    /\ \E i \in (j + 1)..(j + Len(PreOrder(s[j])) - 1) :
         s[i].kind = "Backref" /\ s[i].group = GroupsBefore(s, j)

Analyzed == result.ok
Failed == result = Err
Tree == result.tree

(***************************************************************************)
(* The properties.                                                         *)
(***************************************************************************)
RejectedExamples ==
  { Concat(<<Any, Backref(0)>>), Group(Concat(<<Any, Backref(1)>>)),
    Concat(<<Backref(1), Group(Any)>>) }

\* C1: analyze returns InvalidBackref, and no tree, exactly when some
\* Backref(g) of the AST has g >= the number of Group nodes entered before it
\* in pre-order; otherwise it returns an annotated tree of the AST.  The trees
\* of `.\0`, `(.\1)` and `\1(.)` are rejected.
C1_InvalidBackrefIff ==
  pc # "parsed" =>
    /\ Failed <=> HasUnopenedBackref(expr)
    /\ ~Failed => (Analyzed /\ Tree.expr = expr)
    /\ expr \in RejectedExamples => Failed

C1_Witness ==
  /\ pc = "failed"
  /\ Failed
  /\ expr = Concat(<<Backref(1), Group(Any)>>)

\* C2: whenever a Backref(g) lies inside the body of the Group that takes
\* index g, analyze fails with InvalidBackref.
C2_SelfReferenceRejected ==
  (pc # "parsed" /\ HasSelfReference(expr)) => Failed

\* C3: the looks_left of every Alt node of a returned tree is the disjunction
\* of looks_left over all of its branches, the first included.
C3_AltLooksLeftAllBranches ==
  Analyzed =>
    \A n \in Nodes(Tree) :
      n.expr.kind = "Alt" =>
        (n.looks_left <=> \E i \in 1..Len(n.children) : n.children[i].looks_left)

\* C4: for every Alt node of a returned tree, min_size is the minimum of the
\* branches' min_size, and const_size holds exactly when every branch is
\* const_size and all branches have the same min_size.
C4_AltSize ==
  Analyzed =>
    \A n \in Nodes(Tree) :
      n.expr.kind = "Alt" =>
        LET I == 1..Len(n.children) IN
        /\ \E i \in I : n.min_size = n.children[i].min_size
        /\ \A i \in I : n.min_size <= n.children[i].min_size
        /\ n.const_size <=>
             /\ \A i \in I : n.children[i].const_size
             /\ \A i, j \in I : n.children[i].min_size = n.children[j].min_size

\* A returned Alt of three constant-size branches, the middle one shorter.
C4_Witness ==
  /\ Analyzed
  /\ expr.kind = "Alt"
  /\ Len(Tree.children) = 3
  /\ \A i \in 1..3 : Tree.children[i].const_size
  /\ Tree.children[2].min_size < Tree.children[1].min_size
  /\ Tree.min_size = Tree.children[2].min_size
  /\ ~Tree.const_size

\* Reference match lengths over the AST; a maximum is a number or unbounded.
Fin(n) == [fin |-> TRUE, n |-> n]
Unbounded == [fin |-> FALSE, n |-> 0]

RECURSIVE FoldMin(_, _)
FoldMin(f, n) == IF n = 1 THEN f[1] ELSE Min(f[n], FoldMin(f, n - 1))

MaxLen(a, b) ==
  IF ~a.fin \/ ~b.fin THEN Unbounded ELSE IF a.n >= b.n THEN a ELSE b
PlusLen(a, b) == IF ~a.fin \/ ~b.fin THEN Unbounded ELSE Fin(a.n + b.n)
\* a times hi; a repetition without upper bound has hi = UsizeMax.
TimesLen(a, hi) ==
  IF hi = 0 \/ (a.fin /\ a.n = 0) THEN Fin(0)
  ELSE IF ~a.fin \/ hi = UsizeMax THEN Unbounded
  ELSE Fin(a.n * hi)

RECURSIVE FoldMaxLen(_, _)
FoldMaxLen(f, n) == IF n = 1 THEN f[1] ELSE MaxLen(f[n], FoldMaxLen(f, n - 1))
RECURSIVE FoldPlusLen(_, _)
FoldPlusLen(f, n) == IF n = 0 THEN Fin(0) ELSE PlusLen(f[n], FoldPlusLen(f, n - 1))

RECURSIVE RefMin(_)
RefMin(e) ==
  CASE e.kind \in {"Any", "Literal"} -> 1
    [] e.kind = "Delegate" -> e.size
    [] e.kind = "Concat" -> FoldSum([i \in 1..Len(e.v) |-> RefMin(e.v[i])], Len(e.v))
    [] e.kind = "Alt" -> FoldMin([i \in 1..Len(e.v) |-> RefMin(e.v[i])], Len(e.v))
    [] e.kind \in {"Group", "AtomicGroup"} -> RefMin(e.child)
    [] e.kind = "Repeat" -> RefMin(e.child) * e.lo
    [] OTHER -> 0

RECURSIVE RefMax(_)
RefMax(e) ==
  CASE e.kind \in {"Any", "Literal"} -> Fin(1)
    [] e.kind = "Delegate" -> Fin(e.size)
    [] e.kind = "Concat" -> FoldPlusLen([i \in 1..Len(e.v) |-> RefMax(e.v[i])], Len(e.v))
    [] e.kind = "Alt" -> FoldMaxLen([i \in 1..Len(e.v) |-> RefMax(e.v[i])], Len(e.v))
    [] e.kind \in {"Group", "AtomicGroup"} -> RefMax(e.child)
    [] e.kind = "Repeat" -> TimesLen(RefMax(e.child), e.hi)
    [] e.kind = "Backref" -> Unbounded
    [] OTHER -> Fin(0)

\* C5: at every node of a returned tree min_size is the reference minimum
\* match length of the node's AST, and where const_size is true the reference
\* maximum match length equals min_size too.
C5_SizesSound ==
  Analyzed =>
    \A n \in Nodes(Tree) :
      /\ n.min_size = RefMin(n.expr)
      /\ n.const_size => RefMax(n.expr) = Fin(n.min_size)

\* (ab){2} is returned with min_size 4 and const_size.
C5_Witness ==
  /\ Analyzed
  /\ expr = Repeat(Concat(<<Lit("a"), Lit("b")>>), 2, 2)
  /\ Tree.min_size = 4
  /\ Tree.const_size

\* The subtree of an annotated node holds a Backref, a LookAround, an
\* AtomicGroup, or a Group whose index is in backrefs.
HasHardSource(node) ==
  \E m \in Nodes(node) :
    \/ m.expr.kind \in {"Backref", "LookAround", "AtomicGroup"}
    \/ m.expr.kind = "Group" /\ m.start_group \in backrefs

\* C6: a node of a returned tree is hard exactly when its subtree contains a
\* Backref, a LookAround, an AtomicGroup or a Group whose index is in
\* backrefs.  So a hard child has a hard parent, the root is not hard when the
\* AST has none of the three and backrefs is empty, and when backrefs holds
\* every index of a Backref node, the groups so numbered are hard.
C6_HardIff ==
  Analyzed =>
    /\ \A n \in Nodes(Tree) :
         /\ n.hard <=> HasHardSource(n)
         /\ \A i \in 1..Len(n.children) : n.children[i].hard => n.hard
    /\ ( /\ backrefs = {}
         /\ \A i \in 1..Len(PreOrder(expr)) :
              PreOrder(expr)[i].kind \notin {"Backref", "LookAround", "AtomicGroup"} )
         => ~Tree.hard
    /\ BackrefsOf(expr) \subseteq backrefs =>
         \A g \in BackrefsOf(expr) :
           \E n \in Nodes(Tree) :
             n.expr.kind = "Group" /\ n.start_group = g /\ n.hard

\* (.)\0 with backrefs = {0}: the group is hard though its body is not.
C6_Witness ==
  /\ Analyzed
  /\ expr = Concat(<<Group(Any), Backref(0)>>)
  /\ backrefs = {0}
  /\ Tree.children[1].hard
  /\ ~Tree.children[1].children[1].hard

\* C7: in a returned tree every node has start_group <= end_group with
\* end_group - start_group the number of Group nodes of its subtree; the root
\* starts at 0, so its end_group, the largest of the tree, is the number of
\* Group nodes of the AST; consecutive children of a Concat or Alt have
\* adjacent ranges; the Group nodes take the indices 0..n-1 in pre-order, a
\* nested Group a larger index than the Group around it.
C7_GroupNumbering ==
  Analyzed =>
    LET s == PreOrderA(Tree)
        e == PreOrder(expr) IN
    /\ Tree.start_group = 0
    /\ Tree.end_group = CountGroups(expr)
    /\ Len(s) = Len(e)
    /\ \A i \in 1..Len(s) :
         LET n == s[i] IN
         /\ n.expr = e[i]
         /\ n.start_group <= n.end_group
         /\ n.end_group - n.start_group = CountGroups(n.expr)
         /\ n.end_group <= Tree.end_group
         /\ n.expr.kind \in {"Concat", "Alt"} =>
              \A k \in 1..(Len(n.children) - 1) :
                n.children[k].end_group = n.children[k + 1].start_group
         /\ n.expr.kind = "Group" =>
              /\ n.start_group = GroupsBefore(e, i)
              /\ \A m \in Nodes(n.children[1]) :
                   m.expr.kind = "Group" => m.start_group > n.start_group

\* ((a)(b))(c)\2 is returned with its four groups numbered.
C7_Witness ==
  /\ Analyzed
  /\ expr = Concat(<<Group(Concat(<<Group(Lit("a")), Group(Lit("b"))>>)), Group(Lit("c")), Backref(2)>>)
  /\ Tree.end_group = 4
  /\ Tree.children[1].children[1].children[2].start_group = 2
  /\ Tree.children[2].start_group = 3

\* C8: push_literal does not return normally on a node on which is_literal is
\* false.
C8_PushPanicsOnNonLiteral ==
  pc = "pushed" => is_literal(Tree)

\* The AST is a case-sensitive Literal or a Concat of such trees.
RECURSIVE LiteralExpr(_)
LiteralExpr(e) ==
  \/ e.kind = "Literal" /\ ~e.casei
  \/ e.kind = "Concat" /\ \A i \in 1..Len(e.v) : LiteralExpr(e.v[i])

RECURSIVE JoinText(_, _)
JoinText(t, n) == IF n = 0 THEN "" ELSE JoinText(t, n - 1) \o t[n]

\* The texts of the Literal leaves of an AST, left to right.
LiteralText(e) ==
  LET s == PreOrder(e)
      t == [i \in 1..Len(s) |-> IF s[i].kind = "Literal" THEN s[i].val ELSE ""] IN
  JoinText(t, Len(s))

\* C9: is_literal returns true exactly for a case-sensitive Literal or a
\* Concat whose children are all literal; on such a node push_literal returns
\* normally and leaves the buffer's previous contents followed by the texts of
\* the Literal leaves, left to right.
C9_LiteralDetection ==
  [][ /\ pc' = "tested" => (lit' <=> LiteralExpr(expr))
      /\ (pc' \in {"pushed", "panicked"} /\ is_literal(Tree)) =>
           (pc' = "pushed" /\ buf' = buf \o LiteralText(expr)) ]_vars

\* abc was found literal and pushed to the empty buffer.
C9_Witness ==
  /\ pc = "pushed"
  /\ lit
  /\ expr = Concat(<<Lit("a"), Lit("b"), Lit("c")>>)
  /\ buf = "abc"

\* C10: a Concat node of a returned tree looks left exactly when some child
\* looks left and the children before it have min_size 0 in sum; an empty
\* Concat has looks_left false, min_size 0 and const_size true.
C10_ConcatLooksLeft ==
  Analyzed =>
    \A n \in Nodes(Tree) :
      n.expr.kind = "Concat" =>
        LET c == n.children
            before(i) == FoldSum([k \in 1..(i - 1) |-> c[k].min_size], i - 1) IN
        /\ n.looks_left <=> \E i \in 1..Len(c) : c[i].looks_left /\ before(i) = 0
        /\ Len(c) = 0 => (~n.looks_left /\ n.min_size = 0 /\ n.const_size)

\* A left-looking child behind a child of width 1 does not make the Concat
\* look left.
C10_Witness ==
  /\ Analyzed
  /\ expr = Concat(<<Empty, Lit("a"), StartText>>)
  /\ Tree.children[3].looks_left
  /\ ~Tree.looks_left

====
